---- MODULE Spec2Model ----
(***************************************************************************)
(* A model of the client-side behaviour scripts of ani-web:               *)
(*   - the persisted watchlist and the buttons that mirror it             *)
(*     (static/page-behavior.js, "Watchlist functionality"),              *)
(*   - the custom video player (static/page-behavior.js, the two          *)
(*     "Custom Video Player Logic" blocks),                               *)
(*   - the search field's autocomplete (the unnamed script).              *)
(* Every browser task (an event listener dispatch, a DOMContentLoaded     *)
(* handler, a mutation-observer callback, a timer callback, the           *)
(* continuation of an awaited fetch) is one action.                       *)
(***************************************************************************)
EXTENDS Integers, Sequences, FiniteSets, TLC

(***************************************************************************)
(* Bounds of the model.                                                    *)
(***************************************************************************)
\* longest watchlist found in localStorage when the page loads
MaxLen == 3
\* watchlist buttons that ever exist on the page (at load or injected later)
MaxNodes == 3

\* the anime identifiers (data-anime values) the pages use
Ids == <<"a", "b", "c">>
IdSet == {Ids[i] : i \in 1..Len(Ids)}

Nodes == 1..MaxNodes

\* longest media, in seconds
MaxDuration == 100
\* longest media the timestamp is exercised with, in seconds
MaxMedia == 3725
\* input events on the search field
MaxInputs == 3

VARIABLES
    \* ---- watchlist -------------------------------------------------------
    storage,      \* localStorage.getItem('aniweb_watchlist'), as a payload
    storageMode,  \* "ok" | "denied" (every access throws) | "quota" (setItem throws)
    loaded,       \* the watchlist DOMContentLoaded handler: "no" | "done" | "threw"
    doc,          \* the .watchlist-btn elements that are in the document
    created,      \* how many of the Nodes exist so far (nodes 1..created)
    text,         \* textContent of each .watchlist-btn
    listeners,    \* number of click listeners bound to each .watchlist-btn
    descPresent,  \* the page has #description-watchlist-btn
    descText,     \* its textContent
    descBound,    \* number of click listeners bound to it
    gridPresent,  \* the page has #watchlist-grid
    observing,    \* the MutationObserver is installed on #watchlist-grid
    records,      \* mutation records queued for the observer
    last,         \* outcome of the last task that ran (history)
    pair,         \* the last completed toggleWatchlist calls in a row (history)
    click,        \* what the last click on a .watchlist-btn did (history)
    others,       \* another page of the origin has toggled an anime (history)
    \* ---- seeking ---------------------------------------------------------
    duration,     \* video.duration in seconds, NaN while it is unknown
    currentTime,  \* video.currentTime in seconds
    seek,         \* the last relative seek: its kind and where it started (history)
    seekBar,      \* seekBar.value, as the ratio num / den
    timestamp,    \* timestamp.innerHTML, as a sequence of characters
    tu,           \* the last timeupdate and the display it found (history)
    \* ---- player ----------------------------------------------------------
    hasPlayer,    \* the page has #video and #playerContainer
    blocksRun,    \* how many of the player's DOMContentLoaded listeners have run
    paused,       \* video.paused
    playHidden,   \* the play icon carries the class "hidden"
    pauseHidden,  \* the pause icon carries the class "hidden"
    opacity,      \* opacity of .controls-bar
    fullscreenEl, \* document.fullscreenElement is set
    menuDisplay,  \* speedMenu.style.display
    active,       \* the speed options that carry the class "active"
    playbackRate, \* video.playbackRate, in percent
    timers,       \* the pending timeouts: [id, owner]
    hideControlsTimeout, \* each block's hideControlsTimeout (0: undefined)
    pev,          \* the last event of the player and what it found (history)
    transitioned, \* togglePlay or the ended listener has run (history)
    stale,        \* timers older than the last pointer event (history)
    \* ---- autocomplete ----------------------------------------------------
    searchValue,  \* searchInput.value
    suggestions,  \* the titles of the <li> rows of #suggestions
    inflight,     \* the fetches awaiting their response: [id, query]
    issued,       \* number of fetches issued
    typed,        \* number of input events with a non-empty query (history)
    lastInput,    \* the last input event (history)
    lastEvent,    \* the kind of the last task (history)
    applied       \* the last response written to the list (history)

watchVars == <<storage, storageMode, loaded, doc, created, text, listeners,
               descPresent, descText, descBound, gridPresent, observing,
               records, last, pair, click>>

seekVars == <<duration, currentTime, seek>>

displayVars == <<seekBar, timestamp, tu>>

tabVars == <<others>>

playerVars == <<hasPlayer, blocksRun, paused, playHidden, pauseHidden, opacity,
                fullscreenEl, menuDisplay, active, playbackRate, timers,
                hideControlsTimeout, pev, transitioned, stale>>

searchVars == <<searchValue, suggestions, inflight, issued, typed, lastInput,
                lastEvent, applied>>

vars == <<watchVars, tabVars, seekVars, displayVars, playerVars, searchVars>>

\* what each block's tasks leave alone
notWatch == <<tabVars, seekVars, displayVars, playerVars, searchVars>>
notSeek == <<watchVars, tabVars, displayVars, playerVars, searchVars>>
notPlayer == <<watchVars, tabVars, seekVars, displayVars, searchVars>>
notSearch == <<watchVars, tabVars, seekVars, displayVars, playerVars>>
notDisplay == <<watchVars, tabVars, playerVars, searchVars, duration, seek>>
notPage == <<seekVars, displayVars, playerVars, searchVars>>

(***************************************************************************)
(* Payloads of the storage key.  getItem gives null when the key is        *)
(* absent, otherwise the stored string: the empty string, a string that    *)
(* is not JSON, or the JSON text of an array of identifiers.               *)
(***************************************************************************)
NullItem == [kind |-> "null", items |-> <<>>]
EmptyString == [kind |-> "empty", items |-> <<>>]
Garbage == [kind |-> "garbage", items |-> <<>>]

SeqsUpTo(n) == UNION {[1..k -> IdSet] : k \in 0..n}

\* JSON.stringify of an array of strings: the JSON text of that array
JSONstringify(list) == [kind |-> "array", items |-> list]

\* JSON.parse: the array a JSON text denotes; a SyntaxError on anything else
JSONparse(payload) ==
    IF payload.kind = "array"
    THEN [threw |-> FALSE, val |-> payload.items]
    ELSE [threw |-> TRUE, val |-> <<>>]

Payloads == {NullItem, EmptyString, Garbage}
            \cup {JSONstringify(s) : s \in SeqsUpTo(MaxLen)}

\* an includes that looks at the first element only
IncludesHead(list, x) == Len(list) > 0 /\ list[1] = x

\* Array.prototype.includes
Includes(list, x) == \E i \in 1..Len(list) : list[i] = x

\* a filter that drops only the first occurrence
FilterOutFirst(list, x) ==
    LET hits == {i \in 1..Len(list) : list[i] = x}
        first == CHOOSE i \in hits : \A j \in hits : i <= j
    IN  IF hits = {} THEN list
        ELSE SubSeq(list, 1, first - 1) \o SubSeq(list, first + 1, Len(list))

\* watchlist.filter(id => id !== anime)
FilterOut(list, x) == SelectSeq(list, LAMBDA y : y # x)

(***************************************************************************)
(* The Store: getWatchlist, saveWatchlist, isInWatchlist.                  *)
(***************************************************************************)
\* const stored = localStorage.getItem(KEY); return stored ? JSON.parse(stored) : [];
getWatchlist(st, mode) ==
    IF mode = "denied" THEN [threw |-> TRUE, val |-> <<>>]
    ELSE IF st.kind \in {"null", "empty"} THEN [threw |-> FALSE, val |-> <<>>]
    ELSE JSONparse(st)

\* localStorage.setItem(KEY, JSON.stringify(list))
saveWatchlist(list, st, mode) ==
    IF mode # "ok"
    THEN [threw |-> TRUE, storage |-> st]
    ELSE [threw |-> FALSE, storage |-> JSONstringify(list)]

\* a membership test that looks at the first entry only
isFirstInWatchlist(st, mode, anime) ==
    LET g == getWatchlist(st, mode)
    IN  [threw |-> g.threw, val |-> Len(g.val) > 0 /\ g.val[1] = anime]

\* return getWatchlist().includes(anime)
isInWatchlist(st, mode, anime) ==
    LET g == getWatchlist(st, mode)
    IN  [threw |-> g.threw, val |-> Includes(g.val, anime)]

(***************************************************************************)
(* What the templates put on the buttons.                                  *)
(***************************************************************************)
Filled == "filled"      \* the star glyph of an anime that is in the watchlist
Hollow == "hollow"      \* the star glyph of an anime that is not
AddLabel == "Add to watchlist"
RemoveLabel == "Remove from watchlist"

\* btn.dataset.anime of a .watchlist-btn: two buttons may name the same anime
Anime(n) == Ids[((n - 1) % 2) + 1]
\* btn.dataset.anime of #description-watchlist-btn
DescAnime == Ids[3]

\* btn.classList of a .watchlist-btn, in the order the template wrote it
Classes(n) ==
    CASE n % 3 = 1 -> <<"watchlist-btn">>
      [] n % 3 = 2 -> <<"watchlist-btn", "remove-btn">>
      [] OTHER     -> <<"remove-btn", "watchlist-btn">>

\* btn.classList[1] === "remove-btn"  (classList[1] is the second class)
IsRemoveBtn(n) == Len(Classes(n)) >= 2 /\ Classes(n)[2] = "remove-btn"

(***************************************************************************)
(* A task's working state: the part of the page a handler changes while    *)
(* it runs, with the errors it raised.                                     *)
(***************************************************************************)
World ==
    [storage |-> storage, doc |-> doc, text |-> text, descText |-> descText,
     removed |-> 0, pair |-> pair, threw |-> FALSE, storeErrors |-> 0,
     uncaught |-> 0, calls |-> 0]

NoPair == [id |-> "", W |-> <<>>, prev |-> <<>>, n |-> 0]

\* a Store call raised: nothing catches it, the running listener ends
Raise(w) ==
    [w EXCEPT !.threw = TRUE, !.storeErrors = @ + 1, !.uncaught = @ + 1,
              !.pair = NoPair]

\* function updateWatchlistButtons()
updateWatchlistButtons(w) ==
    LET in(anime) == isInWatchlist(w.storage, storageMode, anime)
        newText == [n \in Nodes |->
                      IF n \in w.doc
                      THEN (IF in(Anime(n)).val THEN Filled ELSE Hollow)
                      ELSE w.text[n]]
        gone == {n \in w.doc : newText[n] = Hollow /\ IsRemoveBtn(n)}
    IN  IF w.doc = {} /\ ~descPresent THEN w
        ELSE IF in(DescAnime).threw THEN Raise(w)
        ELSE [w EXCEPT
                !.text = newText,
                !.doc = w.doc \ gone,
                !.removed = @ + Cardinality(gone),
                !.descText = IF ~descPresent THEN @
                             ELSE IF in(DescAnime).val THEN RemoveLabel
                             ELSE AddLabel]

\* function toggleWatchlist(anime)
toggleWatchlist(w, anime) ==
    LET g == getWatchlist(w.storage, storageMode)
        list == IF Includes(g.val, anime)
                THEN FilterOut(g.val, anime)
                ELSE Append(g.val, anime)
        s == saveWatchlist(list, w.storage, storageMode)
        p == IF w.pair.n = 1 /\ w.pair.id = anime
             THEN [id |-> anime, W |-> w.pair.W, prev |-> g.val, n |-> 2]
             ELSE [id |-> anime, W |-> g.val, prev |-> g.val, n |-> 1]
    IN  IF g.threw \/ s.threw THEN Raise(w)
        ELSE updateWatchlistButtons([w EXCEPT !.storage = s.storage, !.pair = p])

\* the click listeners of one button, run one after the other: an error in
\* one listener is reported and the next listener still runs
RECURSIVE RunListeners(_, _, _)
RunListeners(w, anime, k) ==
    IF k = 0 THEN w
    ELSE RunListeners(
            [toggleWatchlist([w EXCEPT !.threw = FALSE], anime)
                EXCEPT !.calls = @ + 1],
            anime, k - 1)

(***************************************************************************)
(* The watchlist page.                                                     *)
(***************************************************************************)
NoRecords == [added |-> 0, removed |-> 0]
NoClick == [n |-> 0, before |-> FALSE, after |-> FALSE, calls |-> 0]
NoTask == [op |-> "none", kind |-> "null", storeErrors |-> 0, uncaught |-> 0]

\* membership of an anime in the persisted list, read without the Store
Persisted(st, anime) == st.kind = "array" /\ Includes(st.items, anime)

Outcome(op, w) ==
    [op |-> op, kind |-> storage.kind, storeErrors |-> w.storeErrors,
     uncaught |-> w.uncaught]

InitWatch ==
    /\ storageMode \in {"ok", "denied", "quota"}
    /\ storage \in (IF storageMode = "denied" THEN {NullItem} ELSE Payloads)
    /\ loaded = "no"
    /\ created \in 0..MaxNodes
    /\ doc = 1..created
    /\ text \in {[n \in Nodes |-> g] : g \in {Hollow, Filled}}
    /\ listeners = [n \in Nodes |-> 0]
    /\ descPresent \in BOOLEAN
    /\ descText = AddLabel
    /\ descBound = 0
    /\ gridPresent \in BOOLEAN
    /\ observing = FALSE
    /\ records = NoRecords
    /\ last = NoTask
    /\ pair = NoPair
    /\ click = NoClick
    /\ others = FALSE

\* document.addEventListener("DOMContentLoaded", ...) of the watchlist block
PageLoad ==
    /\ UNCHANGED notWatch
    /\ loaded = "no"
    /\ listeners' = [n \in Nodes |-> IF n \in doc THEN listeners[n] + 1
                                     ELSE listeners[n]]
    /\ IF ~descPresent
       THEN \* btn is null: btn.addEventListener raises a TypeError
            /\ loaded' = "threw"
            /\ last' = [Outcome("load", World) EXCEPT !.uncaught = 1]
            /\ UNCHANGED <<storage, doc, text, descText, descBound, observing,
                           pair>>
       ELSE LET w == updateWatchlistButtons(World)
            IN  /\ descBound' = 1
                /\ loaded' = IF w.threw THEN "threw" ELSE "done"
                /\ observing' = (~w.threw /\ gridPresent)
                /\ storage' = w.storage
                /\ doc' = w.doc
                /\ text' = w.text
                /\ descText' = w.descText
                /\ pair' = w.pair
                /\ last' = Outcome("load", w)
    /\ UNCHANGED <<storageMode, created, descPresent, gridPresent, records,
                   click>>

\* the page is between tasks: the observer's callback, a microtask, has run
Idle == loaded # "no" /\ records = NoRecords

Apply(w) ==
    /\ storage' = w.storage
    /\ doc' = w.doc
    /\ text' = w.text
    /\ descText' = w.descText
    /\ pair' = w.pair
    /\ records' = IF observing
                  THEN [records EXCEPT !.removed = @ + w.removed]
                  ELSE records

\* a click on a .watchlist-btn: every listener bound to it runs
ClickToggle(n) ==
    /\ UNCHANGED notWatch
    /\ Idle
    /\ n \in doc
    /\ LET w == RunListeners(World, Anime(n), listeners[n])
       IN  /\ Apply(w)
           /\ last' = Outcome("click", w)
           /\ click' = [n |-> n,
                        before |-> Persisted(storage, Anime(n)),
                        after |-> Persisted(w.storage, Anime(n)),
                        calls |-> w.calls]
    /\ UNCHANGED <<storageMode, loaded, created, listeners, descPresent,
                   descBound, gridPresent, observing>>

\* a click on #description-watchlist-btn
ClickDescription ==
    /\ UNCHANGED notWatch
    /\ Idle
    /\ descPresent
    /\ LET w == RunListeners(World, DescAnime, descBound)
       IN  /\ Apply(w)
           /\ last' = Outcome("desc", w)
    /\ UNCHANGED <<storageMode, loaded, created, listeners, descPresent,
                   descBound, gridPresent, observing, click>>

\* another script appends a card, with its button, to #watchlist-grid (on a
\* page that has the grid, the cards are the grid's children)
Inject ==
    /\ UNCHANGED notWatch
    /\ loaded # "no"
    /\ gridPresent
    /\ created < MaxNodes
    /\ created' = created + 1
    /\ doc' = doc \cup {created + 1}
    /\ records' = IF observing THEN [records EXCEPT !.added = @ + 1]
                  ELSE records
    /\ UNCHANGED <<storage, storageMode, loaded, text, listeners, descPresent,
                   descText, descBound, gridPresent, observing, last, pair,
                   click>>

\* the body of the observer's loop, for the records that added nodes: bind
\* every .watchlist-btn of the document, then updateWatchlistButtons(); an
\* error ends the callback
RECURSIVE ObserverLoop(_, _, _)
ObserverLoop(w, ls, k) ==
    IF k = 0 \/ w.threw THEN [w |-> w, ls |-> ls]
    ELSE ObserverLoop(
            updateWatchlistButtons(w),
            [n \in Nodes |-> IF n \in w.doc THEN ls[n] + 1 ELSE ls[n]],
            k - 1)

\* new MutationObserver((mutationsList, observer) => { ... })
ObserverCallback ==
    /\ UNCHANGED notWatch
    /\ observing
    /\ records # NoRecords
    /\ LET r == ObserverLoop(World, listeners, records.added)
       IN  /\ storage' = r.w.storage
           /\ doc' = r.w.doc
           /\ text' = r.w.text
           /\ descText' = r.w.descText
           /\ pair' = r.w.pair
           /\ listeners' = r.ls
           /\ records' = [added |-> 0, removed |-> r.w.removed]
           /\ last' = Outcome("observer", r.w)
    /\ UNCHANGED <<storageMode, loaded, created, descPresent, descBound,
                   gridPresent, observing, click>>

NextWatch ==
    \/ PageLoad
    \/ \E n \in Nodes : ClickToggle(n)
    \/ ClickDescription
    \/ Inject
    \/ ObserverCallback

(***************************************************************************)
(* Several pages of the origin share the storage key.  A listener runs to  *)
(* its end before another page's listener starts, so the pages interleave  *)
(* handler by handler.                                                     *)
(***************************************************************************)
\* the working state of a listener of another page: the shared storage and
\* that page's own document, of which nothing is kept here
OtherWorld == [World EXCEPT !.doc = {}, !.pair = NoPair]

\* one click listener of another page runs toggleWatchlist(anime)
OtherPageToggle(anime) ==
    /\ UNCHANGED notPage
    /\ storage' = toggleWatchlist(OtherWorld, anime).storage
    /\ pair' = NoPair
    /\ others' = TRUE
    /\ UNCHANGED <<storageMode, loaded, doc, created, text, listeners,
                   descPresent, descText, descBound, gridPresent, observing,
                   records, last, click>>

NextTabs ==
    \/ PageLoad
    \/ \E n \in Nodes : ClickToggle(n)
    \/ ClickDescription
    \/ Inject
    \/ ObserverCallback
    \/ \E anime \in IdSet : OtherPageToggle(anime)

(***************************************************************************)
(* Seeking: the rewind / forward buttons and the arrow keys.  Both         *)
(* "Custom Video Player Logic" blocks register the same listeners, so      *)
(* one event runs each listener twice.                                     *)
(***************************************************************************)
\* the DOMContentLoaded listeners that hold the player logic (lines 18, 175)
PlayerBlocks == 2
\* seconds skipped by the rewind / forward buttons
ButtonStep == 88
\* seconds skipped by the ArrowLeft / ArrowRight keys
KeyStep == 10

NaN == -1

\* Math.min and Math.max: NaN if an argument is NaN
MathMin(a, b) == IF a = NaN \/ b = NaN THEN NaN ELSE IF a <= b THEN a ELSE b
MathMax(a, b) == IF a = NaN \/ b = NaN THEN NaN ELSE IF a >= b THEN a ELSE b

\* a skip back that does not stop at the start of the media
SkipBackUnclamped(t, step) == t - step

\* Math.max(video.currentTime - step, 0)
SkipBack(t, step) == MathMax(t - step, 0)

\* Math.min(video.currentTime + step, video.duration)
SkipForward(t, step) == MathMin(t + step, duration)

\* video.currentTime = v: a TypeError, and no change, if v is not finite
SetCurrentTime(t, v) == IF v = NaN THEN t ELSE v

RewindListener(t) == SetCurrentTime(t, SkipBack(t, ButtonStep))
ForwardListener(t) == SetCurrentTime(t, SkipForward(t, ButtonStep))
ArrowLeftListener(t) == SetCurrentTime(t, SkipBack(t, KeyStep))
ArrowRightListener(t) == SetCurrentTime(t, SkipForward(t, KeyStep))

\* what one block's listener does for an event; the keydown listener ignores
\* every other key
SeekListener(kind, t) ==
    CASE kind = "rewind"     -> RewindListener(t)
      [] kind = "forward"    -> ForwardListener(t)
      [] kind = "ArrowLeft"  -> ArrowLeftListener(t)
      [] kind = "ArrowRight" -> ArrowRightListener(t)
      [] OTHER               -> t

\* the k blocks' copies of the listener, one after the other
RECURSIVE EachSeekListener(_, _, _)
EachSeekListener(kind, t, k) ==
    IF k = 0 THEN t
    ELSE EachSeekListener(kind, SeekListener(kind, t), k - 1)

\* the seek bar and the timestamp as the page's markup has them
SeekBarAtLoad == [num |-> 0, den |-> 1]
TimestampAtLoad == <<"0", "0", ":", "0", "0">>
NoTimeUpdate == [ran |-> FALSE, bar |-> SeekBarAtLoad, stamp |-> TimestampAtLoad]

DisplayAtRest ==
    /\ seekBar = SeekBarAtLoad
    /\ timestamp = TimestampAtLoad
    /\ tu = NoTimeUpdate

InitSeek ==
    /\ duration \in {NaN} \cup (0..MaxDuration)
    /\ currentTime \in (IF duration = NaN THEN {0} ELSE 0..duration)
    /\ seek = [op |-> "none", from |-> 0]
    /\ DisplayAtRest

\* rewind.addEventListener("click", ...)
RewindClick ==
    /\ UNCHANGED notSeek
    /\ currentTime' = EachSeekListener("rewind", currentTime, PlayerBlocks)
    /\ seek' = [op |-> "rewind", from |-> currentTime]
    /\ UNCHANGED duration

\* forward.addEventListener("click", ...)
ForwardClick ==
    /\ UNCHANGED notSeek
    /\ currentTime' = EachSeekListener("forward", currentTime, PlayerBlocks)
    /\ seek' = [op |-> "forward", from |-> currentTime]
    /\ UNCHANGED duration

\* document.addEventListener("keydown", ...)
KeyDown(code) ==
    /\ UNCHANGED notSeek
    /\ currentTime' = EachSeekListener(code, currentTime, PlayerBlocks)
    /\ seek' = [op |-> code, from |-> currentTime]
    /\ UNCHANGED duration

NextSeek ==
    \/ RewindClick
    \/ ForwardClick
    \/ \E code \in {"ArrowRight", "ArrowLeft", "Space"} : KeyDown(code)

(***************************************************************************)
(* The timeupdate listener: the seek bar and the MM:SS timestamp.  Times    *)
(* are whole seconds; a quotient is carried as numerator and denominator.  *)
(***************************************************************************)
DigitChars == <<"0", "1", "2", "3", "4", "5", "6", "7", "8", "9">>

\* the decimal digits of a natural number, as Number.prototype.toString
\* writes them
RECURSIVE NumberToString(_)
NumberToString(n) ==
    IF n < 10 THEN <<DigitChars[n + 1]>>
    ELSE NumberToString(n \div 10) \o <<DigitChars[(n % 10) + 1]>>

\* parseInt(num / den) for a quotient that is 0 or at least 1 / 60: the
\* digits before the decimal point of its string
parseInt(num, den) == num \div den

\* a toLocaleString that pads nothing
toLocaleStringUnpadded(n) == NumberToString(n)

\* n.toLocaleString('en-US', {minimumIntegerDigits: 2, useGrouping: false})
toLocaleString(n) == IF n < 10 THEN <<"0">> \o NumberToString(n) ELSE NumberToString(n)

\* the timeupdate listener, on the display v = [seekBar, timestamp];
\* (t / 60) % 60 is (t % 3600) / 60
timeupdateListener(v, t, d) ==
    IF d = NaN \/ d = 0 THEN v
    ELSE [seekBar |-> [num |-> t * 100, den |-> d],
          timestamp |-> toLocaleString(parseInt(t % 3600, 60)) \o <<":">>
                           \o toLocaleString(parseInt(t % 60, 1))]

\* the timeupdate listeners of the last k blocks, in registration order
RECURSIVE EachTimeupdateListener(_, _, _, _)
EachTimeupdateListener(v, t, d, k) ==
    IF k = 0 THEN v
    ELSE EachTimeupdateListener(timeupdateListener(v, t, d), t, d, k - 1)

\* durations the timestamp is exercised with: unknown, zero, MaxMedia seconds
InitDisplay ==
    /\ duration \in {NaN, 0, MaxMedia}
    /\ currentTime \in (IF duration = NaN THEN {0} ELSE 0..duration)
    /\ seek = [op |-> "none", from |-> 0]
    /\ seekBar = SeekBarAtLoad
    /\ timestamp \in {TimestampAtLoad, <<>>}
    /\ tu = [NoTimeUpdate EXCEPT !.stamp = timestamp]

\* the video fires timeupdate at its current position
TimeUpdate ==
    /\ UNCHANGED notDisplay
    /\ LET v == EachTimeupdateListener(
                    [seekBar |-> seekBar, timestamp |-> timestamp],
                    currentTime, duration, PlayerBlocks)
       IN  /\ seekBar' = v.seekBar
           /\ timestamp' = v.timestamp
    /\ tu' = [ran |-> TRUE, bar |-> seekBar, stamp |-> timestamp]
    /\ UNCHANGED currentTime

\* playback moves on by a second and the video fires timeupdate there
Advance ==
    /\ UNCHANGED notDisplay
    /\ duration # NaN
    /\ currentTime < duration
    /\ currentTime' = currentTime + 1
    /\ LET v == EachTimeupdateListener(
                    [seekBar |-> seekBar, timestamp |-> timestamp],
                    currentTime + 1, duration, PlayerBlocks)
       IN  /\ seekBar' = v.seekBar
           /\ timestamp' = v.timestamp
    /\ tu' = [ran |-> TRUE, bar |-> seekBar, stamp |-> timestamp]

NextDisplay ==
    \/ TimeUpdate
    \/ Advance

(***************************************************************************)
(* The player: play / pause, the speed menu, fullscreen and the controls   *)
(* bar's hide timer.  Each of the PlayerBlocks blocks keeps its own        *)
(* closure (its own hideControlsTimeout) and registers its own listeners.  *)
(***************************************************************************)
Blocks == 1..PlayerBlocks

\* data-speed of the speed menu's buttons, in percent
Speeds == <<50, 100, 200>>
Options == 1..Len(Speeds)

\* the state the player's listeners work on
Player ==
    [paused |-> paused, playHidden |-> playHidden, pauseHidden |-> pauseHidden,
     opacity |-> opacity, menuDisplay |-> menuDisplay, active |-> active,
     playbackRate |-> playbackRate, timers |-> timers,
     hideControlsTimeout |-> hideControlsTimeout,
     closes |-> 0, toggles |-> 0]

\* function togglePlay()
togglePlay(p) ==
    IF p.paused
    THEN [p EXCEPT !.paused = FALSE, !.playHidden = TRUE, !.pauseHidden = FALSE,
                   !.toggles = @ + 1]
    ELSE [p EXCEPT !.paused = TRUE, !.playHidden = FALSE, !.pauseHidden = TRUE,
                   !.toggles = @ + 1]

\* video.addEventListener("click", ...): toggles only with the controls shown
videoClick(p) == IF p.opacity = "1" THEN togglePlay(p) ELSE p

\* an ended listener that leaves the icons as they are
endedKeepsIcons(p) == p

\* video.addEventListener("ended", ...)
endedListener(p) == [p EXCEPT !.playHidden = FALSE, !.pauseHidden = TRUE]

\* the id setTimeout returns: one no pending timer and no variable holds
FreshTimer(p) ==
    CHOOSE i \in 1..(2 * PlayerBlocks + 1) :
        /\ \A t \in p.timers : t.id # i
        /\ \A b \in Blocks : p.hideControlsTimeout[b] # i
        /\ \A j \in 1..(i - 1) :
              \/ \E t \in p.timers : t.id = j
              \/ \E b \in Blocks : p.hideControlsTimeout[b] = j

\* clearTimeout(id)
clearTimeout(ts, id) == {t \in ts : t.id # id}

\* resetControlsTimer() without its setTimeout
resetWithoutTimer(p, b) ==
    [p EXCEPT !.opacity = "1",
              !.timers = clearTimeout(@, p.hideControlsTimeout[b])]

\* function resetControlsTimer(), of block b
resetControlsTimer(p, b) ==
    LET id == FreshTimer(p)
    IN  [p EXCEPT !.opacity = "1",
                  !.timers = clearTimeout(@, p.hideControlsTimeout[b])
                                \cup {[id |-> id, owner |-> b]},
                  !.hideControlsTimeout[b] = id]

\* speedBtn's click listener
speedBtnClick(p) ==
    [p EXCEPT !.menuDisplay = IF @ = "block" THEN "none" ELSE "block"]

\* a speed option's click listener that leaves the other options' marks
speedOptionAdds(p, i) ==
    [p EXCEPT !.playbackRate = Speeds[i], !.active = @ \cup {i},
              !.menuDisplay = "none"]

\* a speed option's click listener
speedOptionClick(p, i) ==
    [p EXCEPT !.playbackRate = Speeds[i], !.active = {i}, !.menuDisplay = "none"]

\* document's click listener: close the speed menu
documentClick(p) == [p EXCEPT !.menuDisplay = "none", !.closes = @ + 1]

\* what block b's listener does for an event (i: the speed option clicked)
Listener(kind, p, i, b) ==
    CASE kind = "playPause"   -> togglePlay(p)
      [] kind = "video"       -> videoClick(p)
      [] kind = "ended"       -> endedListener(p)
      [] kind = "speedBtn"    -> speedBtnClick(p)
      [] kind = "speedOption" -> speedOptionClick(p, i)
      [] kind = "document"    -> documentClick(p)
      [] kind = "pointer"     -> resetControlsTimer(p, b)
      [] OTHER                -> p

\* the listeners of blocks b..PlayerBlocks, in the order they were registered
RECURSIVE EachBlock(_, _, _, _)
EachBlock(kind, p, i, b) ==
    IF b > PlayerBlocks THEN p
    ELSE EachBlock(kind, Listener(kind, p, i, b), i, b + 1)

\* a click that bubbles up to document
Bubbled(p) == EachBlock("document", p, 0, 1)

NoEvent ==
    [kind |-> "none", option |-> 0, pausedBefore |-> TRUE,
     opacityBefore |-> "1", menuBefore |-> "", closes |-> 0]

\* the event that ran, with what it found and how many of document's click
\* listeners it reached
Event(kind, i, p) ==
    [kind |-> kind, option |-> i, pausedBefore |-> paused,
     opacityBefore |-> opacity, menuBefore |-> menuDisplay, closes |-> p.closes]

NoStale == [ids |-> {}, hid |-> FALSE, moved |-> FALSE]

SetPlayer(p) ==
    /\ paused' = p.paused
    /\ playHidden' = p.playHidden
    /\ pauseHidden' = p.pauseHidden
    /\ opacity' = p.opacity
    /\ menuDisplay' = p.menuDisplay
    /\ active' = p.active
    /\ playbackRate' = p.playbackRate
    /\ timers' = p.timers
    /\ hideControlsTimeout' = p.hideControlsTimeout

InitPlayer ==
    /\ hasPlayer \in BOOLEAN
    /\ blocksRun = 0
    /\ paused \in BOOLEAN
    /\ playHidden \in BOOLEAN
    /\ pauseHidden \in BOOLEAN
    /\ opacity \in {"0", "1"}
    /\ fullscreenEl = FALSE
    /\ menuDisplay = ""
    /\ active \in {{}} \cup {{i} : i \in Options}
    /\ playbackRate = 100
    /\ timers = {}
    /\ hideControlsTimeout = [b \in Blocks |-> 0]
    /\ pev = NoEvent
    /\ transitioned = FALSE
    /\ stale = NoStale

\* one of the player's DOMContentLoaded listeners; they run in the order they
\* were registered, before any other event
PlayerLoad ==
    /\ UNCHANGED notPlayer
    /\ hasPlayer
    /\ blocksRun < PlayerBlocks
    /\ blocksRun' = blocksRun + 1
    /\ LET p == resetControlsTimer([Player EXCEPT !.playbackRate = 100],
                                    blocksRun + 1)
       IN  SetPlayer(p) /\ pev' = Event("load", 0, p)
    /\ UNCHANGED <<hasPlayer, fullscreenEl, transitioned, stale>>

Ready == hasPlayer /\ blocksRun = PlayerBlocks

PlayPauseClick ==
    /\ UNCHANGED notPlayer
    /\ Ready
    /\ LET p == Bubbled(EachBlock("playPause", Player, 0, 1))
       IN  /\ SetPlayer(p)
           /\ pev' = Event("playPause", 0, p)
           /\ transitioned' = (transitioned \/ p.toggles > 0)
    /\ UNCHANGED <<hasPlayer, blocksRun, fullscreenEl, stale>>

VideoClick ==
    /\ UNCHANGED notPlayer
    /\ Ready
    /\ LET p == Bubbled(EachBlock("video", Player, 0, 1))
       IN  /\ SetPlayer(p)
           /\ pev' = Event("video", 0, p)
           /\ transitioned' = (transitioned \/ p.toggles > 0)
    /\ UNCHANGED <<hasPlayer, blocksRun, fullscreenEl, stale>>

\* playback reaches the end of the media: the element pauses and fires "ended"
Ended ==
    /\ UNCHANGED notPlayer
    /\ Ready
    /\ ~paused
    /\ LET p == EachBlock("ended", [Player EXCEPT !.paused = TRUE], 0, 1)
       IN  SetPlayer(p) /\ pev' = Event("ended", 0, p)
    /\ transitioned' = TRUE
    /\ UNCHANGED <<hasPlayer, blocksRun, fullscreenEl, stale>>

\* fullscreen's click listeners: each asks for the same change
FullscreenClick ==
    /\ UNCHANGED notPlayer
    /\ Ready
    /\ fullscreenEl' = ~fullscreenEl
    /\ LET p == Bubbled(Player)
       IN  SetPlayer(p) /\ pev' = Event("fullscreen", 0, p)
    /\ UNCHANGED <<hasPlayer, blocksRun, transitioned, stale>>

\* stopPropagation: the click does not reach document
SpeedBtnClick ==
    /\ UNCHANGED notPlayer
    /\ Ready
    /\ LET p == EachBlock("speedBtn", Player, 0, 1)
       IN  SetPlayer(p) /\ pev' = Event("speedBtn", 0, p)
    /\ UNCHANGED <<hasPlayer, blocksRun, fullscreenEl, transitioned, stale>>

\* a click on a speed option; while style.display is "" the stylesheet
\* decides whether the menu shows
SpeedOptionClick(i) ==
    /\ UNCHANGED notPlayer
    /\ Ready
    /\ menuDisplay # "none"
    /\ LET p == Bubbled(EachBlock("speedOption", Player, i, 1))
       IN  SetPlayer(p) /\ pev' = Event("speedOption", i, p)
    /\ UNCHANGED <<hasPlayer, blocksRun, fullscreenEl, transitioned, stale>>

\* a click anywhere else in the page
OutsideClick ==
    /\ UNCHANGED notPlayer
    /\ Ready
    /\ LET p == Bubbled(Player)
       IN  SetPlayer(p) /\ pev' = Event("outside", 0, p)
    /\ UNCHANGED <<hasPlayer, blocksRun, fullscreenEl, transitioned, stale>>

\* mousemove or touchstart inside #playerContainer
PointerActivity ==
    /\ UNCHANGED notPlayer
    /\ Ready
    /\ LET p == EachBlock("pointer", Player, 0, 1)
       IN  /\ SetPlayer(p)
           /\ pev' = Event("pointer", 0, p)
           /\ stale' = [stale EXCEPT
                          !.ids = {t.id : t \in (timers \cap p.timers)},
                          !.moved = TRUE]
    /\ UNCHANGED <<hasPlayer, blocksRun, fullscreenEl, transitioned>>

\* a pending timeout expires: hideControls()
TimerFires(t) ==
    /\ UNCHANGED notPlayer
    /\ Ready
    /\ t \in timers
    /\ LET p == [Player EXCEPT !.opacity = "0", !.timers = @ \ {t}]
       IN  SetPlayer(p) /\ pev' = Event("timer", 0, p)
    /\ stale' = [stale EXCEPT !.ids = @ \ {t.id},
                               !.hid = @ \/ t.id \in stale.ids]
    /\ UNCHANGED <<hasPlayer, blocksRun, fullscreenEl, transitioned>>

NextPlayer ==
    \/ PlayerLoad
    \/ PlayPauseClick
    \/ VideoClick
    \/ Ended
    \/ FullscreenClick
    \/ SpeedBtnClick
    \/ \E i \in Options : SpeedOptionClick(i)
    \/ OutsideClick
    \/ PointerActivity
    \/ \E t \in timers : TimerFires(t)

(***************************************************************************)
(* Autocomplete: the search field's input listener.                        *)
(***************************************************************************)
Queries == {"", "n", "na"}

\* GET /autocomplete?q=<query>: the titles the server answers with
Autocomplete(q) ==
    CASE q = "n"  -> <<"Nana", "Naruto">>
      [] q = "na" -> <<"Nana", "Naruto">>
      [] OTHER    -> <<>>

\* a listener that fetches for every query, the empty one too
AlwaysFetch(query) == TRUE

\* if (!query) { suggestions.innerHTML = ""; return; }  -- else a fetch follows
ShouldFetch(query) == query # ""

NoInput == [query |-> "", rowsBefore |-> 0, issuedBefore |-> 0, n |-> 0]
NoneApplied == [query |-> "", latest |-> "", n |-> 0]

InitSearch ==
    /\ searchValue = ""
    /\ suggestions = <<>>
    /\ inflight = {}
    /\ issued = 0
    /\ typed = 0
    /\ lastInput = NoInput
    /\ lastEvent = "none"
    /\ applied = NoneApplied

\* searchInput's "input" listener, up to its first await
Input(q) ==
    /\ UNCHANGED notSearch
    /\ lastInput.n < MaxInputs
    /\ searchValue' = q
    /\ IF ShouldFetch(q)
       THEN /\ issued' = issued + 1
            /\ inflight' = inflight \cup {[id |-> issued + 1, query |-> q]}
            /\ UNCHANGED suggestions
       ELSE /\ suggestions' = <<>>
            /\ UNCHANGED <<issued, inflight>>
    /\ typed' = IF q # "" THEN typed + 1 ELSE typed
    /\ lastInput' = [query |-> q, rowsBefore |-> Len(suggestions),
                     issuedBefore |-> issued, n |-> lastInput.n + 1]
    /\ lastEvent' = "input"
    /\ UNCHANGED applied

\* the listener's continuation once the response of a fetch has arrived:
\* the list is emptied and filled with the response's titles
Response(r) ==
    /\ UNCHANGED notSearch
    /\ r \in inflight
    /\ inflight' = inflight \ {r}
    /\ suggestions' = Autocomplete(r.query)
    /\ applied' = [query |-> r.query, latest |-> lastInput.query,
                   n |-> applied.n + 1]
    /\ lastEvent' = "response"
    /\ UNCHANGED <<searchValue, issued, typed, lastInput>>

\* the fetch, or the decoding of its body, fails: the catch logs the error
ResponseFails(r) ==
    /\ UNCHANGED notSearch
    /\ r \in inflight
    /\ inflight' = inflight \ {r}
    /\ lastEvent' = "failure"
    /\ UNCHANGED <<searchValue, suggestions, issued, typed, lastInput, applied>>

\* li.onclick of row i
SelectRow(i) ==
    /\ UNCHANGED notSearch
    /\ i \in 1..Len(suggestions)
    /\ searchValue' = suggestions[i]
    /\ suggestions' = <<>>
    /\ lastEvent' = "select"
    /\ UNCHANGED <<inflight, issued, typed, lastInput, applied>>

NextSearch ==
    \/ \E q \in Queries : Input(q)
    \/ \E r \in inflight : Response(r)
    \/ \E r \in inflight : ResponseFails(r)
    \/ \E i \in 1..2 : SelectRow(i)

(***************************************************************************)
(* The specifications: one per script block, the other blocks' state at    *)
(* rest.                                                                   *)
(***************************************************************************)
WatchAtRest ==
    /\ storage = NullItem
    /\ storageMode = "ok"
    /\ loaded = "no"
    /\ created = 0
    /\ doc = {}
    /\ text = [n \in Nodes |-> Hollow]
    /\ listeners = [n \in Nodes |-> 0]
    /\ descPresent = FALSE
    /\ descText = AddLabel
    /\ descBound = 0
    /\ gridPresent = FALSE
    /\ observing = FALSE
    /\ records = NoRecords
    /\ last = NoTask
    /\ pair = NoPair
    /\ click = NoClick
    /\ others = FALSE

SeekAtRest ==
    /\ duration = NaN
    /\ currentTime = 0
    /\ seek = [op |-> "none", from |-> 0]
    /\ DisplayAtRest

PlayerAtRest ==
    /\ hasPlayer = FALSE
    /\ blocksRun = 0
    /\ paused = TRUE
    /\ playHidden = FALSE
    /\ pauseHidden = TRUE
    /\ opacity = "1"
    /\ fullscreenEl = FALSE
    /\ menuDisplay = ""
    /\ active = {}
    /\ playbackRate = 100
    /\ timers = {}
    /\ hideControlsTimeout = [b \in Blocks |-> 0]
    /\ pev = NoEvent
    /\ transitioned = FALSE
    /\ stale = NoStale

InitWatchlist == InitWatch /\ SeekAtRest /\ PlayerAtRest /\ InitSearch
SpecWatchlist == InitWatchlist /\ [][NextWatch]_vars

\* the pages start from a working storage without a repeated entry, this
\* page from markup with hollow glyphs
InitTabs ==
    /\ InitWatch
    /\ storageMode = "ok"
    /\ text = [n \in Nodes |-> Hollow]
    /\ \A i, j \in 1..Len(storage.items) :
          storage.items[i] = storage.items[j] => i = j
    /\ SeekAtRest /\ PlayerAtRest /\ InitSearch
SpecTabs == InitTabs /\ [][NextTabs]_vars

InitSeeking == InitSeek /\ WatchAtRest /\ PlayerAtRest /\ InitSearch
SpecSeek == InitSeeking /\ [][NextSeek]_vars

InitTimestamp == InitDisplay /\ WatchAtRest /\ PlayerAtRest /\ InitSearch
SpecTimestamp == InitTimestamp /\ [][NextDisplay]_vars

InitPlayback == InitPlayer /\ WatchAtRest /\ SeekAtRest /\ InitSearch
SpecPlayer == InitPlayback /\ [][NextPlayer]_vars

\* the ids setTimeout can return (FreshTimer)
TimerIds == 1..(2 * PlayerBlocks + 1)

\* The browser runs the DOMContentLoaded listeners of a loaded document, and a
\* timeout that stays pending expires (setTimeout(hideControls, 2500)).
PlayerFairness ==
    /\ WF_vars(PlayerLoad)
    /\ \A i \in TimerIds : \A b \in Blocks :
          WF_vars(TimerFires([id |-> i, owner |-> b]))

SpecPlayerFair == InitPlayback /\ [][NextPlayer]_vars /\ PlayerFairness

InitAutocomplete == InitSearch /\ WatchAtRest /\ SeekAtRest /\ PlayerAtRest
SpecSearch == InitAutocomplete /\ [][NextSearch]_vars

(***************************************************************************)
(* The Store's properties.                                                 *)
(***************************************************************************)
\* the list the storage holds now, as the Store decodes it
Current == getWatchlist(storage, storageMode).val

NoDuplicates(list) ==
    \A i, j \in 1..Len(list) : list[i] = list[j] => i = j

\* C1 (as claimed): toggleWatchlist(id) twice in a row leaves the persisted
\* watchlist equal, as a sequence, to the list W it held before the two calls
\* (stated here for the duplicate-free W the Store itself writes).
C1_TwiceRestoresSequence ==
    (pair.n = 2 /\ NoDuplicates(pair.W)) => Current = pair.W

\* the only occurrence of x in list is its last element
OnlyLast(list, x) ==
    /\ Len(list) > 0
    /\ list[Len(list)] = x
    /\ \A i \in 1..(Len(list) - 1) : list[i] # x

\* list with every occurrence of x taken out
RECURSIVE Without(_, _)
Without(list, x) ==
    IF list = <<>> THEN <<>>
    ELSE IF Head(list) = x THEN Without(Tail(list), x)
    ELSE <<Head(list)>> \o Without(Tail(list), x)

\* C1 (amended): two completed toggleWatchlist(id) calls in a row leave the
\* persisted watchlist equal to W when id is absent from W or its only
\* occurrence is W's last element; otherwise they leave W with every
\* occurrence of id removed and one id appended (the same set of identifiers).
C1_TwiceMovesToEnd ==
    pair.n = 2 =>
        /\ Current = IF Includes(pair.W, pair.id)
                     THEN Append(Without(pair.W, pair.id), pair.id)
                     ELSE pair.W
        /\ (~Includes(pair.W, pair.id) \/ OnlyLast(pair.W, pair.id))
              => Current = pair.W
        /\ {Current[i] : i \in 1..Len(Current)}
              = {pair.W[i] : i \in 1..Len(pair.W)}

\* C1's case: an id in the middle of W was toggled twice, and the order changed
C1_Witness ==
    /\ pair.n = 2
    /\ Len(pair.W) = 3
    /\ pair.W[2] = pair.id
    /\ pair.W[1] # pair.id /\ pair.W[3] # pair.id
    /\ Current # pair.W

\* C2: after one completed toggleWatchlist(id), isInWatchlist(id) is the
\* negation of what it was before the call, and isInWatchlist(j) is what it
\* was for every other identifier j.
C2_ToggleFlipsMembership ==
    pair.n >= 1 =>
        /\ isInWatchlist(storage, storageMode, pair.id)
              = [threw |-> FALSE, val |-> ~Includes(pair.prev, pair.id)]
        /\ \A j \in IdSet \ {pair.id} :
              isInWatchlist(storage, storageMode, j)
                 = [threw |-> FALSE, val |-> Includes(pair.prev, j)]

\* C2's case: an absent id was toggled in, then toggled out again
C2_Witness ==
    /\ pair.n = 2
    /\ ~Includes(pair.W, pair.id)
    /\ Includes(pair.prev, pair.id)
    /\ ~isInWatchlist(storage, storageMode, pair.id).val

\* C3: a task that finds the storage key absent, or holding a payload that is
\* not JSON, ends without an error of the Store (getWatchlist gave the empty
\* list).
C3_CorruptPayloadReadsEmpty ==
    (storageMode = "ok" /\ last.op # "none" /\ last.kind # "array")
        => last.storeErrors = 0

\* C4: with the storage unavailable (reads or writes fail), no task ends with
\* an uncaught error of the Store.
C4_UnavailableStorageNoError ==
    (storageMode # "ok" /\ last.op # "none") => last.storeErrors = 0

(***************************************************************************)
(* The buttons' properties.                                                *)
(***************************************************************************)
\* C6: one click on a watchlist button performs toggleWatchlist exactly once,
\* so the anime's membership after the click is the negation of its
\* membership before (checked where the storage works and the page's
\* initialization completed).
C6_OneBindingPerToggle ==
    (click.n # 0 /\ storageMode = "ok" /\ loaded = "done")
        => (click.calls = 1 /\ click.after = ~click.before)

\* C7: between tasks, every watchlist button in the document shows the filled
\* glyph exactly when its anime is in the persisted watchlist (checked where
\* the storage works and holds a decodable payload).
C7_GlyphsAgreeWithStore ==
    (Idle /\ storageMode = "ok" /\ storage.kind # "garbage")
        => \A n \in doc :
              text[n] = IF Persisted(storage, Anime(n)) THEN Filled ELSE Hollow

\* the same, on pages whose initialization completed
GlyphsAgreeWhenInitialized ==
    (Idle /\ loaded = "done" /\ storageMode = "ok")
        => \A n \in doc :
              text[n] = IF Persisted(storage, Anime(n)) THEN Filled ELSE Hollow

C8_OnlyLatestResponseApplied ==
    /\ applied.n > 0 => applied.query = applied.latest
    /\ (inflight = {} /\ lastInput.n > 0 /\ lastInput.query = "")
          => suggestions = <<>>

\* C9: the listener, run on an empty query, empties the list and issues no
\* fetch; the fetches issued are as many as the input events with a
\* non-empty query.
C9_EmptyQueryClearsWithoutFetch ==
    /\ issued = typed
    /\ (lastEvent = "input" /\ lastInput.query = "")
          => (suggestions = <<>> /\ issued = lastInput.issuedBefore)
    /\ (lastEvent = "input" /\ lastInput.query # "")
          => issued = lastInput.issuedBefore + 1

\* C9's case: an empty query arrived while the list showed rows, after a
\* fetch had been issued
C9_Witness ==
    /\ lastEvent = "input"
    /\ lastInput.query = ""
    /\ lastInput.rowsBefore > 0
    /\ suggestions = <<>>
    /\ issued = 1

\* C19: starting without a repeated entry, whatever toggles this page and the
\* other pages run, handler by handler, the persisted sequence holds no
\* identifier more than once.
C19_NoDuplicateEntries ==
    NoDuplicates(storage.items)

\* C19's case: this page toggled after another page had, and the store holds
\* several entries
C19_Witness ==
    /\ others
    /\ pair.n >= 1
    /\ storage.kind = "array"
    /\ Len(storage.items) >= 2

\* C13: with a readable store, whether or not the description button is
\* present, the page's initialization has run to its end once it has run: the
\* initial updateWatchlistButtons() was performed without an error and the
\* observer is installed when #watchlist-grid exists.
C13_InitializationCompletes ==
    (loaded # "no" /\ storageMode # "denied" /\ storage.kind # "garbage") =>
        /\ loaded = "done"
        /\ gridPresent => observing

\* the button carries the remove-btn class, wherever in its class list
HasMarker(n) == \E i \in 1..Len(Classes(n)) : Classes(n)[i] = "remove-btn"

\* C20: after updateWatchlistButtons() has run on a page with a working
\* store, no button that carries remove-btn (in whatever position) and whose
\* anime is absent from the watchlist still has its card in the document, no
\* card of a button without remove-btn has been removed, and a refresh
\* leaves the persisted watchlist as it is.
C20_RefreshRemovesMarkedCards ==
    (Idle /\ loaded = "done" /\ storageMode = "ok" /\ last.uncaught = 0) =>
        /\ \A n \in 1..created :
              /\ (HasMarker(n) /\ ~Persisted(storage, Anime(n))) => n \notin doc
              /\ ~HasMarker(n) => n \in doc
        /\ updateWatchlistButtons(World).storage = storage

(***************************************************************************)
(* The player's properties.                                                *)
(***************************************************************************)
\* C10: at most one hide-controls timer is pending for the page.
C10_AtMostOneHideTimer ==
    Cardinality(timers) <= 1

\* C11: a click outside the speed menu while the menu is not closed closes it,
\* and the close action runs exactly once for that click.
C11_OutsideClickClosesOnce ==
    (pev.kind = "outside" /\ pev.menuBefore # "none") =>
        /\ menuDisplay = "none"
        /\ pev.closes = 1

\* C14: after all listeners of one click on the play/pause control, or on the
\* video with the controls visible, the playback state is the opposite of the
\* state before the click; a click on the video with the controls hidden
\* leaves it as it was.
C14_ClickFlipsPlayback ==
    /\ pev.kind = "playPause" => paused = ~pev.pausedBefore
    /\ (pev.kind = "video" /\ pev.opacityBefore = "1") =>
           paused = ~pev.pausedBefore
    /\ (pev.kind = "video" /\ pev.opacityBefore = "0") =>
           paused = pev.pausedBefore

\* the number a string of decimal digits writes
RECURSIVE FromDigits(_)
FromDigits(str) ==
    IF str = <<>> THEN 0
    ELSE 10 * FromDigits(SubSeq(str, 1, Len(str) - 1))
           + (CHOOSE k \in 0..9 : DigitChars[k + 1] = str[Len(str)])

\* C12: after a timeupdate with a non-zero duration at whole second t the
\* timestamp is two digits, a colon, two digits, reading floor(t / 60) mod 60
\* and t mod 60 (02:05 at t = 125); with an unknown or zero duration the
\* seek bar and the timestamp are as the timeupdate found them.
C12_TimestampIsMMSS ==
    tu.ran =>
        IF duration = NaN \/ duration = 0
        THEN seekBar = tu.bar /\ timestamp = tu.stamp
        ELSE /\ Len(timestamp) = 5
             /\ timestamp[3] = ":"
             /\ FromDigits(SubSeq(timestamp, 1, 2)) = (currentTime \div 60) % 60
             /\ FromDigits(SubSeq(timestamp, 4, 5)) = currentTime % 60
             /\ currentTime = 125 => timestamp = <<"0", "2", ":", "0", "5">>

\* C12's case: a timeupdate at 125 seconds has written 02:05
C12_Witness ==
    /\ tu.ran
    /\ duration = MaxMedia
    /\ currentTime = 125
    /\ timestamp = <<"0", "2", ":", "0", "5">>

\* C15: once togglePlay or the ended listener has run, the play icon is
\* visible exactly when the video is paused and the pause icon exactly when
\* it is playing, so exactly one of the two is visible.
C15_IconsMatchPlayback ==
    transitioned =>
        /\ ~playHidden = paused
        /\ ~pauseHidden = ~paused
        /\ playHidden # pauseHidden

\* C15's case: the video reached its end while playing, and shows the play icon
C15_Witness ==
    /\ pev.kind = "ended"
    /\ ~pev.pausedBefore
    /\ paused
    /\ ~playHidden

\* C16: one click on the speed button flips the menu (closed to open, open to
\* closed) and does not reach document's click listener.
C16_SpeedButtonFlipsMenu ==
    pev.kind = "speedBtn" =>
        /\ pev.menuBefore = "block" => menuDisplay = "none"
        /\ pev.menuBefore # "block" => menuDisplay = "block"
        /\ pev.closes = 0

\* C17: at most one speed option is active; right after an option is
\* selected the playback rate is that option's, it is the only active option
\* and the menu is closed.
C17_OneActiveSpeed ==
    /\ Cardinality(active) <= 1
    /\ pev.kind = "speedOption" =>
           /\ playbackRate = Speeds[pev.option]
           /\ active = {pev.option}
           /\ menuDisplay = "none"

\* C18: the controls are visible right after the page's load and right after
\* every pointer or touch event inside the player; no timer scheduled before
\* the most recent such event is pending or has hidden the controls; and
\* unless such events keep occurring, the controls end up hidden.
C18_ControlsShowThenHide ==
    /\ [](pev.kind \in {"load", "pointer"} => opacity = "1")
    /\ [](stale.ids = {} /\ ~stale.hid)
    /\ ([]<><<PointerActivity>>_vars) \/ <>[](Ready => opacity = "0")

\* C18's case: after a pointer event the timers expired and hid the controls
C18_Witness ==
    /\ stale.moved
    /\ pev.kind = "timer"
    /\ timers = {}
    /\ opacity = "0"

\* C17's case: an option other than the normal rate was selected
C17_Witness ==
    /\ pev.kind = "speedOption"
    /\ active = {pev.option}
    /\ playbackRate # 100

====
